---- MODULE Spec2Model ----
(***************************************************************************)
(* lwreg: the three subcommands of src/main.rs (generate, gen-world,       *)
(* lookup) as a state machine.                                             *)
(*                                                                         *)
(* A cell is the path of child digits below the base cell, so <<>> is the  *)
(* base cell, <<1>> its first child, <<1,2>> a grandchild.  The H3 grid    *)
(* has seven children per cell; the model keeps the hierarchy and scales   *)
(* the fan-out down to Digits.                                             *)
(***************************************************************************)
EXTENDS Integers, Sequences, FiniteSets, TLC

\* Largest value of a u8 label (`n as u8`, `u8::try_from(idx)`).
U8Max == 255

\* Resolutions of the model's grid.
Resolutions == 0..1

Finest == CHOOSE r \in Resolutions : \A q \in Resolutions : q <= r

\* Longest input stream (records of an h3idz file, cells of a rasterized feature).
MaxLen == 2

Digits == 1..2

Cells == UNION {[1..k -> Digits] : k \in Resolutions}

CellsAt(res) == [1..res -> Digits]

IsPrefix(a, b) == Len(a) <= Len(b) /\ SubSeq(b, 1, Len(a)) = a

\* Order of cell indices as integers: the resolution bits are above the digits.
RECURSIVE LexLess(_, _)
LexLess(a, b) ==
    IF a = <<>> \/ b = <<>> THEN FALSE
    ELSE IF Head(a) # Head(b) THEN Head(a) < Head(b)
    ELSE LexLess(Tail(a), Tail(b))

CellLess(a, b) == Len(a) < Len(b) \/ (Len(a) = Len(b) /\ LexLess(a, b))

(***************************************************************************)
(* Results of run(): Ok(()) with what was printed, or Err(message).        *)
(***************************************************************************)
NoIdx == 0 - 1

Ok(lines) == [tag |-> "Ok", msg |-> "", idx |-> NoIdx, out |-> lines]

Err(m, i) == [tag |-> "Err", msg |-> m, idx |-> i, out |-> <<>>]

Running == [tag |-> "Running", msg |-> "", idx |-> NoIdx, out |-> <<>>]

\* The thread unwound: the process ends with a panic message and a failure status.
Panic(m) == [tag |-> "Panic", msg |-> m, idx |-> NoIdx, out |-> <<>>]

(***************************************************************************)
(* HexTreeMap<u8>: a prefix tree whose nodes are leaves (a value) or       *)
(* parents, held as the function from its leaf cells to their values.      *)
(* insert() walks the digits of the cell: a leaf met on the way covers the *)
(* cell already and the tree is left alone; at the end of the digits the   *)
(* node, with whatever was below it, becomes a leaf of the new value.      *)
(***************************************************************************)
EmptyMap == [c \in {} |-> 0]

Covered(m, c) == \E a \in DOMAIN m : IsPrefix(a, c) /\ a # c

Insert(m, c, v) ==
    IF Covered(m, c) THEN m
    ELSE [x \in {y \in DOMAIN m : ~IsPrefix(c, y)} \cup {c} |->
              IF x = c THEN v ELSE m[x]]

RECURSIVE InsertAll(_, _, _)
InsertAll(m, cells, v) ==
    IF cells = <<>> THEN m
    ELSE InsertAll(Insert(m, Head(cells), v), Tail(cells), v)

(***************************************************************************)
(* to_disktree: the tree on disk, node by node from the base cell: 0 for   *)
(* an empty node, 1 and the value byte for a leaf, 2 and the children in   *)
(* digit order for a parent.  The real encoding is the tree library's; the *)
(* program only needs it to be self-delimiting and seekable by cell.       *)
(***************************************************************************)
RECURSIVE EncNode(_, _), EncKids(_, _, _)
EncNode(m, c) ==
    IF c \in DOMAIN m THEN <<1, m[c]>>
    ELSE IF \E y \in DOMAIN m : IsPrefix(c, y) THEN <<2>> \o EncKids(m, c, 1)
    ELSE <<0>>

EncKids(m, c, d) ==
    IF d \notin Digits THEN <<>>
    ELSE EncNode(m, Append(c, d)) \o EncKids(m, c, d + 1)

ToDisktree(m) == EncNode(m, <<>>)

\* Position after the node that starts at p, 0 when the bytes are no node.
RECURSIVE NodeEnd(_, _), KidsEnd(_, _, _)
NodeEnd(f, p) ==
    IF p > Len(f) THEN 0
    ELSE IF f[p] = 0 THEN p + 1
    ELSE IF f[p] = 1 THEN (IF p + 1 > Len(f) THEN 0 ELSE p + 2)
    ELSE IF f[p] = 2 THEN KidsEnd(f, p + 1, 1)
    ELSE 0

KidsEnd(f, p, d) ==
    IF d \notin Digits THEN p
    ELSE LET e == NodeEnd(f, p)
         IN  IF e = 0 THEN 0 ELSE KidsEnd(f, e, d + 1)

\* Position of the child d of the parent whose children start at p.
RECURSIVE KidPos(_, _, _, _)
KidPos(f, p, d, want) ==
    IF d = want THEN p
    ELSE LET e == NodeEnd(f, p)
         IN  IF e = 0 THEN 0 ELSE KidPos(f, e, d + 1, want)

\* DiskTree::seek_to_cell: Ok(Some(position of the value)), Ok(None) or Err.
RECURSIVE SeekFrom(_, _, _)
SeekFrom(f, p, digits) ==
    IF p = 0 \/ p > Len(f) THEN [tag |-> "Err", at |-> 0]
    ELSE IF f[p] = 0 THEN [tag |-> "None", at |-> 0]
    ELSE IF f[p] = 1 THEN [tag |-> "Some", at |-> p + 1]
    ELSE IF f[p] = 2 THEN
        IF digits = <<>> THEN [tag |-> "None", at |-> 0]
        ELSE SeekFrom(f, KidPos(f, p + 1, 1, Head(digits)), Tail(digits))
    ELSE [tag |-> "Err", at |-> 0]

SeekToCell(f, cell) == SeekFrom(f, 1, cell)

(***************************************************************************)
(* byteorder and bincode: u64 little-endian, Vec<String> as a u64 length   *)
(* and, per string, a u64 length and the bytes.                            *)
(***************************************************************************)
RECURSIVE LEBytes(_, _)
LEBytes(v, k) == IF k = 0 THEN <<>> ELSE <<v % 256>> \o LEBytes(v \div 256, k - 1)

WriteU64(v) == LEBytes(v, 8)

\* Anything this large is beyond every file of the model.
Far == 2 ^ 20

RECURSIVE LEValue(_)
LEValue(b) ==
    IF b = <<>> THEN 0
    ELSE LET hi == LEValue(Tail(b))
         IN  IF hi >= Far THEN Far ELSE Head(b) + 256 * hi

\* read_u64 at position p (1-based): the value, or failure at end of file.
ReadU64(f, p) ==
    IF p < 1 \/ p + 7 > Len(f) THEN [ok |-> FALSE, v |-> 0]
    ELSE [ok |-> TRUE, v |-> LEValue(SubSeq(f, p, p + 7))]

RECURSIVE Flatten(_)
Flatten(ss) ==
    IF ss = <<>> THEN <<>>
    ELSE IF Len(ss) = 1 THEN ss[1]
    ELSE LET h == Len(ss) \div 2
         IN  Flatten(SubSeq(ss, 1, h)) \o Flatten(SubSeq(ss, h + 1, Len(ss)))

BincodeString(s) == WriteU64(Len(s)) \o s

BincodeSerialize(lut) ==
    WriteU64(Len(lut)) \o Flatten([i \in 1..Len(lut) |-> BincodeString(lut[i])])

\* k strings from position p on, one after the other: the first half of them,
\* then the rest from where the first half ended.
RECURSIVE ReadStrings(_, _, _)
ReadStrings(f, p, k) ==
    IF k = 0 THEN [ok |-> TRUE, lut |-> <<>>, next |-> p]
    ELSE IF k = 1
    THEN LET n == ReadU64(f, p)
         IN  IF ~n.ok \/ p + 7 + n.v > Len(f)
             THEN [ok |-> FALSE, lut |-> <<>>, next |-> p]
             ELSE [ok |-> TRUE, lut |-> <<SubSeq(f, p + 8, p + 7 + n.v)>>,
                   next |-> p + 8 + n.v]
    ELSE LET a == ReadStrings(f, p, k \div 2)
         IN  IF ~a.ok THEN a
             ELSE LET b == ReadStrings(f, a.next, k - (k \div 2))
                  IN  IF ~b.ok THEN b
                      ELSE [ok |-> TRUE, lut |-> a.lut \o b.lut, next |-> b.next]

\* As BincodeDeserialize, but the end of the file in place of the length is
\* taken for an empty LUT.
BincodeDeserializeEofIsEmpty(f, p) ==
    LET n == ReadU64(f, p)
    IN  IF ~n.ok THEN [ok |-> TRUE, lut |-> <<>>]
        ELSE IF n.v >= Far THEN [ok |-> FALSE, lut |-> <<>>]
        ELSE LET r == ReadStrings(f, p + 8, n.v)
             IN  [ok |-> r.ok, lut |-> r.lut]

\* bincode::deserialize_from at position p.
BincodeDeserialize(f, p) ==
    LET n == ReadU64(f, p)
    IN  IF ~n.ok \/ n.v >= Far THEN [ok |-> FALSE, lut |-> <<>>]
        ELSE LET r == ReadStrings(f, p + 8, n.v)
             IN  [ok |-> r.ok, lut |-> r.lut]

(***************************************************************************)
(* Inputs.  A set file of `generate` is its path and its decompressed      *)
(* stream: 8-byte records that are a cell or no valid cell index, and the  *)
(* place, if any, where the reader fails (a read or decompression error).  *)
(***************************************************************************)
Dot == 46

CellRec(c) == [k |-> "cell", c |-> c]

BadRec == [k |-> "bad", c |-> <<>>]

IoErr == [k |-> "ioerr", c |-> <<>>]

StreamItems == {CellRec(c) : c \in Cells} \cup {BadRec, IoErr}

Streams == UNION {[1..k -> StreamItems] : k \in 0..MaxLen}

\* "a.h3", "b.gz": the names differ in the part before the first dot.
PathA == <<97, Dot, 104, 51>>

PathB == <<98, Dot, 103, 122>>

\* Path of the i-th set of a large build, in ascending order of i.
PathOf(i) == <<97 + (i \div 16), 97 + (i % 16), Dot, 104>>

SetFile(path, stream) == [path |-> path, stream |-> stream]

SmallSets ==
    {<<SetFile(PathA, s)>> : s \in Streams}
    \cup {<<SetFile(PathB, s), SetFile(PathA, t)>> : s \in Streams, t \in Streams}

\* U8Max + 1 and U8Max + 2 sets, empty but for the first and the last.
LargeSets ==
    {[i \in 1..cnt |->
         SetFile(PathOf(i - 1),
                 IF i = 1 THEN <<CellRec(<<>>)>>
                 ELSE IF i = cnt THEN last ELSE <<>>)] :
       cnt \in {U8Max + 1, U8Max + 2},
       last \in {<<>>, <<CellRec(<<>>)>>}}

(***************************************************************************)
(* A feature of the collection of `gen-world`: whether it has properties,  *)
(* whether it has a geometry and the geometry converts ("bad" fails with an *)
(* error, "panic" unwinds the worker), and the cells its geometry          *)
(* rasterizes to at the resolution of the build.  The properties of the    *)
(* feature at index i print as PropsOf(i).                                 *)
(***************************************************************************)
Feature(p, g, raw) == [props |-> p, geom |-> g, raw |-> raw]

PropsOf(i) == <<65 + (i \div 16), 65 + (i % 16)>>

RawCells(res) == UNION {[1..k -> CellsAt(res)] : k \in 0..MaxLen}

Features(res) ==
    {Feature(TRUE, "ok", raw) : raw \in RawCells(res)}
    \cup {Feature(FALSE, "ok", <<>>), Feature(TRUE, "none", <<>>),
          Feature(FALSE, "none", <<>>), Feature(TRUE, "bad", <<>>),
          Feature(TRUE, "panic", <<>>)}

SmallWorlds(res) == UNION {[1..k -> Features(res)] : k \in 1..2}

\* U8Max + 1 features, without cells but for the first and the last, and
\* U8Max + 2 features of which the last has no properties.
LargeWorlds(res) ==
    {[i \in 1..cnt |->
         IF i = U8Max + 2 THEN Feature(FALSE, "ok", <<>>)
         ELSE Feature(TRUE, "ok",
                      IF i = 1 \/ i = U8Max + 1 THEN <<[j \in 1..res |-> 1]>>
                      ELSE <<>>)] :
       cnt \in {U8Max + 1, U8Max + 2}}

(***************************************************************************)
(* State.                                                                  *)
(***************************************************************************)
VARIABLES
    cmd,            \* the build subcommand: "generate" or "genworld"
    sets,           \* generate: the set files, in command-line order
    features,       \* genworld: the features of the collection
    resolution,     \* genworld: --resolution
    pool,           \* genworld: threads of the rayon pool
    pc,             \* where the main thread is
    inputs,         \* generate: (name, file) pairs, sorted
    n,              \* generate: index of the set being read
    region_map,     \* generate: HexTreeMap<u8>
    world_map,      \* genworld: HexTreeMap<u8>
    property_lut,   \* genworld: Vec<(u8, String)>
    rx,             \* genworld: messages sent and not yet received
    todo,           \* genworld: features no worker has taken yet
    werr,           \* genworld: the error try_for_each will return, if any
    tdone,          \* genworld: the spawned thread has returned
    disktree_file,  \* the output file
    result,         \* what run() returned for the build
    prev,           \* the artifact of an earlier build of the same inputs
    looked,         \* target and result of a lookup on the output file
    inserted,       \* the calls of insert on the mapping, in the order made
    norm            \* a raw cell set and what normalizing it returned

vars == <<cmd, sets, features, resolution, pool, pc, inputs, n, region_map,
          world_map, property_lut, rx, todo, werr, tdone, disktree_file,
          result, prev, looked, inserted, norm>>

NoFile == [exists |-> FALSE, bytes |-> <<>>]

FileOf(bytes) == [exists |-> TRUE, bytes |-> bytes]

NoLookup == [target |-> <<>>, res |-> Running, damaged |-> FALSE]

\* What normalizing returned, before it ran.
NotRun == [ok |-> FALSE, cells |-> <<>>]

\* Nothing is normalized on its own: the build commands normalize inside work_fun.
NoNorm == [raw |-> <<>>, res |-> 0, stage |-> 0, once |-> NotRun, twice |-> NotRun]

genVars == <<inputs, n, region_map>>

worldVars == <<world_map, property_lut, rx, todo, werr, tdone>>

inVars == <<cmd, sets, features, resolution, pool>>

(***************************************************************************)
(* generate                                                                *)
(***************************************************************************)
RECURSIVE StrLess(_, _)
StrLess(a, b) ==
    IF b = <<>> THEN FALSE
    ELSE IF a = <<>> THEN TRUE
    ELSE IF Head(a) # Head(b) THEN Head(a) < Head(b)
    ELSE StrLess(Tail(a), Tail(b))

\* chars().take_while(|&c| c != '.')
RECURSIVE TakeName(_)
TakeName(path) ==
    IF path = <<>> \/ Head(path) = Dot THEN <<>>
    ELSE <<Head(path)>> \o TakeName(Tail(path))

\* inputs.sort_by(|a, b| a.0.cmp(&b.0)): stable, ascending by name.  The place of
\* an element is the number of elements that go before it.
Before(xs, i, j) ==
    StrLess(xs[i].name, xs[j].name) \/ (xs[i].name = xs[j].name /\ i < j)

SortByName(xs) ==
    LET placed == {<<1 + Cardinality({i \in 1..Len(xs) : Before(xs, i, j)}), j>> :
                      j \in 1..Len(xs)}
    IN  [k \in 1..Len(xs) |-> xs[(CHOOSE pj \in placed : pj[1] = k)[2]]]

OpenInputs(paths) ==
    [i \in 1..Len(paths) |->
        [name |-> TakeName(paths[i].path), file |-> paths[i].stream]]

\* `n as u8`
AsU8(k) == k % (U8Max + 1)

\* while let Ok(entry) = rdr.read_u64() { region_map.insert(Cell::try_from(entry)?, n as u8) }
\* `calls` lists the cells insert was called with.
RECURSIVE ReadSet(_, _, _)
ReadSet(m, stream, label) ==
    IF stream = <<>> THEN [ok |-> TRUE, map |-> m, calls |-> <<>>]
    ELSE IF Head(stream).k = "ioerr" THEN [ok |-> TRUE, map |-> m, calls |-> <<>>]
    ELSE IF Head(stream).k = "bad" THEN [ok |-> FALSE, map |-> m, calls |-> <<>>]
    ELSE LET r == ReadSet(Insert(m, Head(stream).c, label), Tail(stream), label)
         IN  [r EXCEPT !.calls = <<Head(stream).c>> \o @]

\* The calls of insert made for the source src with the label given.
Calls(src, label, cells) ==
    [k \in 1..Len(cells) |-> [src |-> src, label |-> label, cell |-> cells[k]]]

RegionNameLut(ins) == [i \in 1..Len(ins) |-> ins[i].name]

\* As WriteArtifact, but the position of the LUT is taken after the LUT is written.
WriteArtifactLatePos(map, lut) ==
    LET tree == ToDisktree(map)
        body == tree \o BincodeSerialize(lut)
    IN  body \o WriteU64(Len(body))

\* to_disktree, seek(End(0)), bincode::serialize_into, write_u64, on a fresh file.
WriteArtifact(map, lut) ==
    LET tree == ToDisktree(map)
        lut_pos == Len(tree)
    IN  tree \o BincodeSerialize(lut) \o WriteU64(lut_pos)

GenOpen ==
    /\ cmd = "generate" /\ pc = "start"
    /\ inputs' = SortByName(OpenInputs(sets))
    /\ n' = 0
    /\ region_map' = EmptyMap
    /\ inserted' = <<>>
    /\ pc' = "read"
    /\ UNCHANGED <<inVars, worldVars, disktree_file, result, prev, looked, norm>>

GenRead ==
    /\ cmd = "generate" /\ pc = "read" /\ n < Len(inputs)
    /\ LET r == ReadSet(region_map, inputs[n + 1].file, AsU8(n))
       IN  /\ inserted' = inserted \o Calls(n, AsU8(n), r.calls)
           /\ IF r.ok
              THEN /\ region_map' = r.map
                   /\ n' = n + 1
                   /\ UNCHANGED <<pc, result>>
              ELSE /\ region_map' = r.map
                   /\ result' = Err("invalid cell index", NoIdx)
                   /\ pc' = "done"
                   /\ UNCHANGED n
    /\ UNCHANGED <<inVars, inputs, worldVars, disktree_file, prev, looked, norm>>

GenWrite ==
    /\ cmd = "generate" /\ pc = "read" /\ n = Len(inputs)
    /\ disktree_file' = FileOf(WriteArtifact(region_map, RegionNameLut(inputs)))
    /\ result' = Ok(<<>>)
    /\ pc' = "done"
    /\ UNCHANGED <<inVars, genVars, worldVars, prev, looked, inserted, norm>>

(***************************************************************************)
(* gen-world                                                               *)
(***************************************************************************)
\* cells.sort_unstable()
SortCells(cells) ==
    LET before(i, j) == CellLess(cells[i], cells[j]) \/ (cells[i] = cells[j] /\ i < j)
        placed == {<<1 + Cardinality({i \in 1..Len(cells) : before(i, j)}), j>> :
                      j \in 1..Len(cells)}
    IN  [k \in 1..Len(cells) |-> cells[(CHOOSE pj \in placed : pj[1] = k)[2]]]

\* cells.dedup(): consecutive equal elements become one.
RECURSIVE Dedup(_)
Dedup(cells) ==
    IF Len(cells) <= 1 THEN cells
    ELSE IF cells[1] = cells[2] THEN Dedup(Tail(cells))
    ELSE <<cells[1]>> \o Dedup(Tail(cells))

dedup_cells(cells) == Dedup(SortCells(cells))

Parent(c) == SubSeq(c, 1, Len(c) - 1)

\* As CompactSet, but one round only.
CompactSetOneRound(S) ==
    LET full == {p \in {Parent(c) : c \in S \ {<<>>}} :
                    \A d \in Digits : Append(p, d) \in S}
    IN  {c \in S : c = <<>> \/ Parent(c) \notin full} \cup full

\* One round of compaction after the other: every cell whose children are all
\* in the set replaces them.
RECURSIVE CompactSet(_)
CompactSet(S) ==
    LET full == {p \in {Parent(c) : c \in S \ {<<>>}} :
                    \A d \in Digits : Append(p, d) \in S}
    IN  IF full = {} THEN S
        ELSE CompactSet({c \in S : c = <<>> \/ Parent(c) \notin full} \cup full)

Range(s) == {s[i] : i \in 1..Len(s)}

SetToSeq(S) ==
    [k \in 1..Cardinality(S) |->
        CHOOSE c \in S : Cardinality({b \in S : CellLess(b, c)}) = k - 1]

\* CellIndex::compact(cells)?: cells of one resolution without duplicates, or an error.
compact_cells(cells) ==
    IF Cardinality(Range(cells)) # Len(cells)
       \/ \E a, b \in Range(cells) : Len(a) # Len(b)
    THEN [ok |-> FALSE, cells |-> <<>>]
    ELSE [ok |-> TRUE, cells |-> SetToSeq(CompactSet(Range(cells)))]

\* As to_cells, but the features are counted from one in the errors.
to_cellsOneBased(idx, feature, res) ==
    IF ~feature.props THEN [ok |-> FALSE, err |-> Err("no properties for feature", idx + 1)]
    ELSE IF feature.geom = "none"
    THEN [ok |-> FALSE, err |-> Err("missing geometry", idx + 1)]
    ELSE IF feature.geom = "bad"
    THEN [ok |-> FALSE, err |-> Err("invalid geometry", NoIdx)]
    ELSE IF feature.geom = "panic"
    THEN [ok |-> FALSE, err |-> Panic("thread join")]
    ELSE [ok |-> TRUE, props |-> PropsOf(idx), cells |-> feature.raw]

to_cells(idx, feature, res) ==
    IF ~feature.props THEN [ok |-> FALSE, err |-> Err("no properties for feature", idx)]
    ELSE IF feature.geom = "none"
    THEN [ok |-> FALSE, err |-> Err("missing geometry", idx)]
    ELSE IF feature.geom = "bad"
    THEN [ok |-> FALSE, err |-> Err("invalid geometry", NoIdx)]
    ELSE IF feature.geom = "panic"
    THEN [ok |-> FALSE, err |-> Panic("thread join")]
    ELSE [ok |-> TRUE, props |-> PropsOf(idx), cells |-> feature.raw]

\* The message a worker sends for the feature at idx, or the error it returns.
work_fun(idx, feature, res) ==
    IF idx > U8Max
    THEN [ok |-> FALSE, err |-> Err("out of range integral type conversion", NoIdx)]
    ELSE LET t == to_cells(idx, feature, res)
         IN  IF ~t.ok THEN t
             ELSE LET c == compact_cells(dedup_cells(t.cells))
                  IN  IF ~c.ok
                      THEN [ok |-> FALSE, err |-> Err("compaction", NoIdx)]
                      ELSE [ok |-> TRUE,
                            msg |-> [lut_idx |-> idx, properties |-> t.props,
                                     cells |-> c.cells]]

\* File::create(out), the collection is read, the channel made, the producer spawned.
WorldStart ==
    /\ cmd = "genworld" /\ pc = "start"
    /\ disktree_file' = FileOf(<<>>)
    /\ world_map' = EmptyMap
    /\ property_lut' = <<>>
    /\ rx' = <<>>
    /\ todo' = 0..(Len(features) - 1)
    /\ werr' = Ok(<<>>)
    /\ tdone' = FALSE
    /\ inserted' = <<>>
    /\ pc' = "recv"
    /\ UNCHANGED <<inVars, genVars, result, prev, looked, norm>>

\* The features a worker may take next: with one thread the first that is
\* left, with more threads any that is left.
NextUp == IF pool = 1 THEN {i \in todo : \A j \in todo : i <= j} ELSE todo

\* As Work, but the worker inserts the cells itself before it sends them.
WorkInserts(idx) ==
    /\ cmd = "genworld" /\ pc = "recv" /\ ~tdone
    /\ idx \in todo
    /\ pool = 1 => (werr.tag = "Ok" /\ \A j \in todo : idx <= j)
    /\ todo' = todo \ {idx}
    /\ LET w == work_fun(idx, features[idx + 1], resolution)
       IN  IF w.ok
           THEN /\ rx' = Append(rx, w.msg)
                /\ world_map' = InsertAll(world_map, w.msg.cells, idx)
                /\ UNCHANGED werr
           ELSE /\ werr' \in (IF werr.tag = "Ok" THEN {w.err} ELSE {werr, w.err})
                /\ UNCHANGED <<rx, world_map>>
    /\ UNCHANGED <<inVars, genVars, property_lut, tdone, pc,
                   disktree_file, result, prev, looked, inserted, norm>>

\* A worker of the pool runs work_fun on a feature nobody has taken.  One thread
\* takes the features in order; with more threads any of them may come next,
\* and a feature in flight when another fails still completes.
Work(idx) ==
    /\ cmd = "genworld" /\ pc = "recv" /\ ~tdone
    /\ idx \in todo
    /\ pool = 1 => (werr.tag = "Ok" /\ \A j \in todo : idx <= j)
    /\ todo' = todo \ {idx}
    /\ LET w == work_fun(idx, features[idx + 1], resolution)
       IN  IF w.ok
           THEN /\ rx' = Append(rx, w.msg)
                /\ UNCHANGED werr
           ELSE /\ werr' \in (IF werr.tag = "Ok" THEN {w.err} ELSE {werr, w.err})
                /\ UNCHANGED rx
    /\ UNCHANGED <<inVars, genVars, world_map, property_lut, tdone, pc,
                   disktree_file, result, prev, looked, inserted, norm>>

\* As ThreadExit, but the thread returns only when every feature was run.
ThreadExitWhenAllRan ==
    /\ cmd = "genworld" /\ pc = "recv" /\ ~tdone
    /\ todo = {}
    /\ tdone' = TRUE
    /\ todo' = {}
    /\ UNCHANGED <<inVars, genVars, world_map, property_lut, rx, werr, pc,
                   disktree_file, result, prev, looked, inserted, norm>>

\* try_for_each returns (the features left are not run after an error), the
\* closure returns and the senders are dropped.
ThreadExit ==
    /\ cmd = "genworld" /\ pc = "recv" /\ ~tdone
    /\ todo = {} \/ werr.tag # "Ok"
    /\ tdone' = TRUE
    /\ todo' = {}
    /\ UNCHANGED <<inVars, genVars, world_map, property_lut, rx, werr, pc,
                   disktree_file, result, prev, looked, inserted, norm>>

\* while let Ok((lut_idx, properties, cells)) = rx.recv() { ... }
Recv ==
    /\ cmd = "genworld" /\ pc = "recv" /\ rx # <<>>
    /\ LET m == Head(rx)
       IN  /\ property_lut' = Append(property_lut, <<m.lut_idx, m.properties>>)
           /\ world_map' = InsertAll(world_map, m.cells, m.lut_idx)
           /\ inserted' = inserted \o Calls(m.lut_idx, m.lut_idx, m.cells)
    /\ rx' = Tail(rx)
    /\ UNCHANGED <<inVars, genVars, todo, werr, tdone, pc,
                   disktree_file, result, prev, looked, norm>>

\* recv() fails: the channel is empty and every sender is gone.
RecvEnd ==
    /\ cmd = "genworld" /\ pc = "recv" /\ rx = <<>> /\ tdone
    /\ pc' = "join"
    /\ UNCHANGED <<inVars, genVars, worldVars, disktree_file, result, prev, looked, inserted, norm>>

\* As Join, but the result of the thread is dropped.
JoinDropsResult ==
    /\ cmd = "genworld" /\ pc = "join" /\ tdone
    /\ pc' = "write"
    /\ UNCHANGED <<inVars, genVars, worldVars, disktree_file, result, prev, looked, inserted, norm>>

\* As Join, but a panic of the thread is not taken for a failure.
JoinIgnoresPanic ==
    /\ cmd = "genworld" /\ pc = "join" /\ tdone
    /\ IF werr.tag = "Err"
       THEN result' = werr /\ pc' = "done"
       ELSE pc' = "write" /\ UNCHANGED result
    /\ UNCHANGED <<inVars, genVars, worldVars, disktree_file, prev, looked, inserted, norm>>

\* thread_handle.join().map_err(..).unwrap()?
Join ==
    /\ cmd = "genworld" /\ pc = "join" /\ tdone
    /\ IF werr.tag # "Ok"
       THEN result' = werr /\ pc' = "done"
       ELSE pc' = "write" /\ UNCHANGED result
    /\ UNCHANGED <<inVars, genVars, worldVars, disktree_file, prev, looked, inserted, norm>>

\* As SortedLut, but the strings are left in the order they arrived in.
SortedLutArrival(lut) == [k \in 1..Len(lut) |-> lut[k][2]]

\* property_lut.sort_by_key(|(lut_idx, _)| *lut_idx), then the strings alone.
SortedLut(lut) ==
    LET before(i, j) == lut[i][1] < lut[j][1] \/ (lut[i][1] = lut[j][1] /\ i < j)
        placed == {<<1 + Cardinality({i \in 1..Len(lut) : before(i, j)}), j>> :
                      j \in 1..Len(lut)}
    IN  [k \in 1..Len(lut) |-> lut[(CHOOSE pj \in placed : pj[1] = k)[2]][2]]

WorldWrite ==
    /\ cmd = "genworld" /\ pc = "write"
    /\ disktree_file' = FileOf(WriteArtifact(world_map, SortedLut(property_lut)))
    /\ result' = Ok(<<>>)
    /\ pc' = "done"
    /\ UNCHANGED <<inVars, genVars, worldVars, prev, looked, inserted, norm>>

(***************************************************************************)
(* lookup                                                                  *)
(***************************************************************************)
\* A target that is no cell index: digit 0 does not exist.
NoCell == <<0>>

Targets == Cells \cup {NoCell}

\* seek(SeekFrom::Start(lut_pos)): the offset is passed on as a signed 64-bit
\* number, and a pointer with the top bit set is refused.
FitsOffset(f) == f[Len(f)] < 128

\* As LookupRun, but a label that is no index of the LUT is reported as a miss.
LookupRunBadLabelIsMiss(file, target) ==
    IF target \notin Cells THEN Err("invalid cell index", NoIdx)
    ELSE IF ~file.exists THEN Err("open", NoIdx)
    ELSE LET f == file.bytes
             pos == ReadU64(f, Len(f) - 7)
         IN
         IF ~pos.ok \/ ~FitsOffset(f) THEN Err("seek", NoIdx)
         ELSE LET lut == BincodeDeserialize(f, pos.v + 1)
                  hit == SeekToCell(f, target)
              IN
              IF ~lut.ok THEN Err("deserialize", NoIdx)
              ELSE IF hit.tag = "Err" THEN Err("disktree", NoIdx)
              ELSE IF hit.tag = "None" THEN Err("no entry", NoIdx)
              ELSE IF hit.at > Len(f) THEN Err("read", NoIdx)
              ELSE IF f[hit.at] < Len(lut.lut)
                   THEN Ok(<<lut.lut[f[hit.at] + 1]>>)
                   ELSE Err("no entry", NoIdx)

LookupRun(file, target) ==
    IF target \notin Cells THEN Err("invalid cell index", NoIdx)
    ELSE IF ~file.exists THEN Err("open", NoIdx)
    ELSE LET f == file.bytes
             pos == ReadU64(f, Len(f) - 7)
         IN
         IF ~pos.ok \/ ~FitsOffset(f) THEN Err("seek", NoIdx)
         ELSE LET lut == BincodeDeserialize(f, pos.v + 1)
                  hit == SeekToCell(f, target)
              IN
              IF ~lut.ok THEN Err("deserialize", NoIdx)
              ELSE IF hit.tag = "Err" THEN Err("disktree", NoIdx)
              ELSE IF hit.tag = "None" THEN Err("no entry", NoIdx)
              ELSE IF hit.at > Len(f) THEN Err("read", NoIdx)
              ELSE LET region_name_lut_idx == f[hit.at]
                   IN  IF region_name_lut_idx < Len(lut.lut)
                       THEN Ok(<<lut.lut[region_name_lut_idx + 1]>>)
                       ELSE Err("no interned value for index", region_name_lut_idx)

Lookup ==
    /\ pc \in {"done", "damaged"}
    /\ \E t \in Targets :
          looked' = [target |-> t, res |-> LookupRun(disktree_file, t),
                     damaged |-> (pc = "damaged")]
    /\ pc' = "looked"
    /\ UNCHANGED <<inVars, genVars, worldVars, disktree_file, result, prev, inserted, norm>>

\* The artifact is damaged on disk: a stored label becomes the LUT length.
LutLenOf(f) ==
    LET pos == ReadU64(f, Len(f) - 7)
    IN  Len(BincodeDeserialize(f, pos.v + 1).lut)

DamageLabel ==
    /\ pc = "done" /\ result.tag = "Ok"
    /\ \E c \in Cells :
          LET hit == SeekToCell(disktree_file.bytes, c)
              len == LutLenOf(disktree_file.bytes)
          IN  /\ hit.tag = "Some"
              /\ len <= U8Max
              /\ disktree_file' =
                    FileOf([disktree_file.bytes EXCEPT ![hit.at] = len])
    /\ pc' = "damaged"
    /\ UNCHANGED <<inVars, genVars, worldVars, result, prev, looked, inserted, norm>>

\* The artifact is damaged on disk: the trailing pointer becomes the length of
\* the file, one more, or 2^63.
PastEnd(len) == {WriteU64(len), WriteU64(len + 1), [i \in 1..8 |-> IF i = 8 THEN 128 ELSE 0]}

DamagePointer ==
    /\ pc = "done" /\ result.tag = "Ok"
    /\ LET f == disktree_file.bytes
       IN  \E ptr \in PastEnd(Len(f)) :
              disktree_file' = FileOf(SubSeq(f, 1, Len(f) - 8) \o ptr)
    /\ pc' = "damaged"
    /\ UNCHANGED <<inVars, genVars, worldVars, result, prev, looked, inserted, norm>>

\* The same command is run again on the same inputs.
Rebuild ==
    /\ pc = "done" /\ result.tag = "Ok"
    /\ prev = NoFile
    /\ prev' = disktree_file
    /\ pc' = "start"
    /\ result' = Running
    /\ UNCHANGED <<inVars, genVars, worldVars, disktree_file, looked, inserted, norm>>

InitCommon ==
    /\ pc = "start"
    /\ inputs = <<>> /\ n = 0 /\ region_map = EmptyMap
    /\ world_map = EmptyMap /\ property_lut = <<>> /\ rx = <<>>
    /\ todo = {} /\ werr = Ok(<<>>) /\ tdone = FALSE
    /\ disktree_file = NoFile
    /\ result = Running
    /\ prev = NoFile
    /\ looked = NoLookup
    /\ inserted = <<>>

InitGen ==
    /\ cmd = "generate"
    /\ sets \in SmallSets \cup LargeSets
    /\ features = <<>> /\ resolution = Finest /\ pool = 1
    /\ InitCommon
    /\ norm = NoNorm

InitWorld ==
    /\ cmd = "genworld"
    /\ sets = <<>>
    /\ resolution = Finest
    /\ \/ features \in SmallWorlds(resolution) /\ pool \in {1, 2}
       \/ features \in LargeWorlds(resolution) /\ pool = 1
    /\ InitCommon
    /\ norm = NoNorm

NextWorld ==
    \/ WorldStart
    \/ \E idx \in NextUp : Work(idx)
    \/ ThreadExit
    \/ Recv
    \/ RecvEnd
    \/ Join
    \/ WorldWrite
    \/ Lookup
    \/ DamageLabel
    \/ DamagePointer
    \/ Rebuild

SpecWorld == InitWorld /\ [][NextWorld]_vars

\* Some worker can take a feature: ENABLED <<\E idx : Work(idx)>>_vars, written
\* out as the guard of Work (a step of Work always changes todo).
WorkEnabled ==
    /\ cmd = "genworld" /\ pc = "recv" /\ ~tdone
    /\ todo # {}
    /\ pool = 1 => werr.tag = "Ok"

\* WF_vars(\E idx : Work(idx)) with ENABLED replaced by WorkEnabled.
WorkFair ==
    []<>~WorkEnabled \/ []<><<\E idx \in NextUp : Work(idx)>>_vars

\* The threads of gen-world are threads of the operating system: the main
\* thread, the producer and the workers of the pool each take their next step
\* when they can.
InitPipeline ==
    /\ cmd = "genworld"
    /\ sets = <<>>
    /\ resolution = Finest
    /\ features \in SmallWorlds(resolution) /\ pool \in {1, 2}
    /\ InitCommon
    /\ norm = NoNorm

NextPipeline ==
    \/ WorldStart
    \/ \E idx \in NextUp : Work(idx)
    \/ ThreadExit
    \/ Recv
    \/ RecvEnd
    \/ Join
    \/ WorldWrite

SpecWorldFair ==
    /\ InitPipeline /\ [][NextPipeline]_vars
    /\ WF_vars(WorldStart)
    /\ WorkFair
    /\ WF_vars(ThreadExit)
    /\ WF_vars(Recv)
    /\ WF_vars(RecvEnd)
    /\ WF_vars(Join)
    /\ WF_vars(WorldWrite)

(***************************************************************************)
(* dedup_cells and compact_cells on their own: a raw multiset of cells of   *)
(* one resolution is normalized as work_fun does it, and what comes out is *)
(* normalized once more.                                                   *)
(***************************************************************************)
NormResolutions == 1..2

MaxRaw == 4

NormRaws(res) == UNION {[1..k -> CellsAt(res)] : k \in 0..MaxRaw}

InitNorm ==
    /\ cmd = "normalize"
    /\ sets = <<>> /\ features = <<>> /\ pool = 1
    /\ resolution \in NormResolutions
    /\ InitCommon
    /\ \E raw \in NormRaws(resolution) :
          norm = [raw |-> raw, res |-> resolution, stage |-> 0,
                  once |-> NotRun, twice |-> NotRun]

buildVars ==
    <<pc, genVars, worldVars, disktree_file, result, prev, looked, inserted>>

\* compact_cells(dedup_cells(cells))
Normalize ==
    /\ cmd = "normalize" /\ norm.stage = 0
    /\ norm' = [norm EXCEPT !.stage = 1,
                            !.once = compact_cells(dedup_cells(norm.raw))]
    /\ UNCHANGED <<inVars, buildVars>>

Renormalize ==
    /\ cmd = "normalize" /\ norm.stage = 1 /\ norm.once.ok
    /\ norm' = [norm EXCEPT !.stage = 2,
                            !.twice = compact_cells(dedup_cells(norm.once.cells))]
    /\ UNCHANGED <<inVars, buildVars>>

NextNorm == Normalize \/ Renormalize

SpecNorm == InitNorm /\ [][NextNorm]_vars

NextGen ==
    GenOpen \/ GenRead \/ GenWrite \/ Lookup \/ DamageLabel \/ DamagePointer \/ Rebuild

SpecGen == InitGen /\ [][NextGen]_vars

Init == InitGen \/ InitWorld

Next == NextGen \/ NextWorld

Spec == Init /\ [][Next]_vars

(***************************************************************************)
(* What the claims speak of.                                               *)
(***************************************************************************)
BuiltOk == pc = "done" /\ result.tag = "Ok"

\* A lookup was run on the artifact as a successful build left it.
LookedAtBuilt == pc = "looked" /\ result.tag = "Ok" /\ ~looked.damaged

\* The cells of a stream up to the place where reading stops.
RECURSIVE RawSet(_)
RawSet(stream) ==
    IF stream = <<>> \/ Head(stream).k # "cell" THEN {}
    ELSE {Head(stream).c} \cup RawSet(Tail(stream))

\* Indices (in command-line order) of the sets whose raw cells hold c.
SetsWith(c) == {i \in 1..Len(sets) : c \in RawSet(sets[i].stream)}

\* Indices (from 0) of the features whose geometry covers the cell c.
FeaturesWith(c) ==
    {i \in 0..(Len(features) - 1) :
        features[i + 1].geom = "ok" /\ c \in Range(features[i + 1].raw)}

Printed(name) == Ok(<<name>>)

\* C1: gen-world on a fixed collection gives the same artifact on every
\* successful build, whatever the scheduling of the workers: a second
\* successful build of the collection leaves the file the first one left.
C1_SameArtifact ==
    (cmd = "genworld" /\ BuiltOk /\ prev.exists) => disktree_file = prev

\* C2: after generate, a cell in the raw set of exactly one set file looks up
\* to the name of that file.
C2_OnlySourceResolves ==
    (cmd = "generate" /\ LookedAtBuilt /\ Cardinality(SetsWith(looked.target)) = 1)
        => \E i \in SetsWith(looked.target) :
              looked.res = Printed(TakeName(sets[i].path))

\* C3: after generate, a cell in the raw sets of two set files looks up to the
\* name that sorts later, and a repeated build gives the same artifact.
C3_LaterNameWins ==
    /\ (cmd = "generate" /\ LookedAtBuilt /\ Cardinality(SetsWith(looked.target)) = 2)
           => \E i \in SetsWith(looked.target) :
                 /\ \A j \in SetsWith(looked.target) :
                       ~StrLess(TakeName(sets[i].path), TakeName(sets[j].path))
                 /\ looked.res = Printed(TakeName(sets[i].path))
    /\ (cmd = "generate" /\ BuiltOk /\ prev.exists) => disktree_file = prev

\* C4: after gen-world, a cell covered by two features looks up to the
\* properties of the one with the higher index, whatever the arrival order.
C4_LaterFeatureWins ==
    (cmd = "genworld" /\ LookedAtBuilt /\ Cardinality(FeaturesWith(looked.target)) = 2)
        => \E i \in FeaturesWith(looked.target) :
              /\ \A j \in FeaturesWith(looked.target) : j <= i
              /\ looked.res = Printed(PropsOf(i))

NumSources == IF cmd = "generate" THEN Len(sets) ELSE Len(features)

CleanInputs ==
    /\ \A i \in 1..Len(sets) : \A k \in 1..Len(sets[i].stream) :
          sets[i].stream[k].k = "cell"
    /\ \A i \in 1..Len(features) : features[i].props /\ features[i].geom = "ok"

\* C5: in both modes a finished build of U8Max + 1 sources has succeeded and a
\* finished build of more sources has failed.
C5_CapacityBoundary ==
    pc = "done" =>
        /\ (NumSources = U8Max + 1 /\ CleanInputs) => result.tag = "Ok"
        /\ NumSources > U8Max + 1 => result.tag = "Err"

\* No input source holds the cell c or an ancestor of it.
InNoSource(c) ==
    /\ \A i \in 1..Len(sets) : \A a \in RawSet(sets[i].stream) : ~IsPrefix(a, c)
    /\ \A i \in 1..Len(features) : \A a \in Range(features[i].raw) : ~IsPrefix(a, c)

\* C6: looking up a cell that no source holds is no failure of the lookup, and
\* prints no value.
C6_MissIsNoError ==
    (LookedAtBuilt /\ looked.target \in Cells /\ InNoSource(looked.target))
        => looked.res.tag = "Ok" /\ looked.res.out = <<>>

\* The LUT the build holds when it writes.
BuiltLut ==
    IF cmd = "generate" THEN RegionNameLut(inputs) ELSE SortedLut(property_lut)

BuiltMap == IF cmd = "generate" THEN region_map ELSE world_map

\* The label the file stores for the cell c is no index of the LUT of the file.
LabelOutOfRange(f, c) ==
    LET hit == SeekToCell(f, c)
        pos == ReadU64(f, Len(f) - 7)
        lut == BincodeDeserialize(f, pos.v + 1)
    IN  /\ pos.ok /\ lut.ok
        /\ hit.tag = "Some" /\ hit.at <= Len(f)
        /\ f[hit.at] >= Len(lut.lut)

\* C7: a lookup that finds a label that is no index of the LUT fails, with a
\* failure other than "no entry", and prints nothing.
C7_BadLabelIsDistinctFailure ==
    (pc = "looked" /\ looked.target \in Cells /\ disktree_file.exists
       /\ LabelOutOfRange(disktree_file.bytes, looked.target))
        => /\ looked.res.tag = "Err"
           /\ looked.res.msg # "no entry"
           /\ looked.res.out = <<>>

C7_Witness ==
    /\ pc = "looked" /\ looked.damaged
    /\ looked.res.msg = "no interned value for index"
    /\ looked.res.idx = Len(BuiltLut)

\* C8: after a successful build the file is the tree, then the LUT, then eight
\* bytes holding the offset at which the LUT starts, and reading the file back
\* from those eight bytes gives the LUT the build wrote.
C8_Layout ==
    BuiltOk =>
        LET f == disktree_file.bytes
            pos == ReadU64(f, Len(f) - 7)
            lut == BincodeDeserialize(f, pos.v + 1)
        IN  /\ disktree_file.exists
            /\ pos.ok
            /\ NodeEnd(f, 1) = pos.v + 1
            /\ SubSeq(f, 1, pos.v) = ToDisktree(BuiltMap)
            /\ lut.ok /\ lut.lut = BuiltLut
            /\ Len(f) = pos.v + Len(BincodeSerialize(BuiltLut)) + 8

C8_Witness ==
    /\ BuiltOk /\ Len(BuiltLut) = 2
    /\ Cardinality(DOMAIN BuiltMap) = 2

\* C9: once a worker of gen-world has failed, the output file holds no byte
\* and stays so, and the build, when it ends, has failed.
C9_WorkerFailureAborts ==
    (cmd = "genworld" /\ werr.tag = "Err")
        => /\ disktree_file.bytes = <<>>
           /\ result.tag # "Ok"
           /\ pc \in {"done", "looked"} => result.tag = "Err"

C9_Witness ==
    /\ cmd = "genworld" /\ pc = "done" /\ werr.tag = "Err"
    /\ DOMAIN world_map # {}
    /\ result.tag = "Err"

\* C10: generate does not succeed on a set file whose stream has a reader
\* error or a record that is no cell index.
C10_ReaderErrorsAbort ==
    (cmd = "generate" /\ BuiltOk)
        => \A i \in 1..Len(sets) : \A k \in 1..Len(sets[i].stream) :
              sets[i].stream[k].k = "cell"

\* Indices (from 0) of the features without properties or without a geometry.
Offenders ==
    {i \in 0..(Len(features) - 1) :
        ~features[i + 1].props \/ features[i + 1].geom = "none"}

\* Indices of the features that have properties and whose geometry does not convert.
OtherFailures ==
    {i \in 0..(Len(features) - 1) :
        features[i + 1].props /\ features[i + 1].geom \in {"bad", "panic"}}

\* C11 (as stated): a finished gen-world build of a collection in which a feature
\* has no geometry or no properties has failed with an error that names the
\* index of such a feature, wherever the feature stands in the collection.
C11_ErrorNamesFeature ==
    (cmd = "genworld" /\ pc = "done" /\ Offenders # {})
        => result.tag = "Err" /\ result.idx \in Offenders

\* C11 (amended): such a build has failed; when the collection holds at most
\* U8Max + 1 features and no other feature fails to convert, the error names
\* the index of a feature without geometry or properties and says which of
\* the two it lacks.
C11_ErrorNamesFeatureWhenAlone ==
    (cmd = "genworld" /\ pc = "done" /\ Offenders # {})
        => /\ result.tag \in {"Err", "Panic"}
           /\ (Len(features) <= U8Max + 1 /\ OtherFailures = {})
                 => /\ result.tag = "Err"
                    /\ result.idx \in Offenders
                    /\ result.msg =
                          (IF features[result.idx + 1].props
                           THEN "missing geometry"
                           ELSE "no properties for feature")

C11_Witness ==
    /\ cmd = "genworld" /\ pc = "done" /\ Len(features) = 2
    /\ result.tag = "Err" /\ result.idx = 1 /\ result.msg = "missing geometry"
    /\ DOMAIN world_map # {}

\* The trailing pointer of the file f points at or past the end of f.
PointerPastEnd(f) ==
    Len(f) >= 8 /\ (~FitsOffset(f) \/ ReadU64(f, Len(f) - 7).v >= Len(f))

\* C12 (as stated): a lookup on a file whose trailing pointer is past the end of
\* the file fails at the deserialization of the LUT, and prints nothing.
C12_PastEndFailsAtDeserialize ==
    (pc = "looked" /\ looked.target \in Cells /\ disktree_file.exists
       /\ PointerPastEnd(disktree_file.bytes))
        => looked.res = Err("deserialize", NoIdx)

\* C12 (amended): such a lookup fails, at the seek when the pointer does not
\* fit a signed 64-bit offset and at the deserialization of the LUT otherwise;
\* it reports neither a value nor "no entry" nor a label out of an empty LUT.
C12_PastEndFails ==
    (pc = "looked" /\ looked.target \in Cells /\ disktree_file.exists
       /\ PointerPastEnd(disktree_file.bytes))
        => looked.res =
              (IF FitsOffset(disktree_file.bytes)
               THEN Err("deserialize", NoIdx) ELSE Err("seek", NoIdx))

C12_Witness ==
    /\ pc = "looked" /\ looked.damaged
    /\ PointerPastEnd(disktree_file.bytes)
    /\ SeekToCell(disktree_file.bytes, looked.target).tag = "Some"
    /\ looked.res = Err("deserialize", NoIdx)

\* The normalized cells of the feature at index i.
NormalizedOf(i) == Range(compact_cells(dedup_cells(features[i + 1].raw)).cells)

\* C13: after a successful gen-world build of n features, n is at most
\* U8Max + 1, the LUT of the file has n entries of which entry i is the
\* properties of feature i, and the calls of insert are those of the normalized
\* cells of every feature, each with the index of its feature as label,
\* whatever the order the results arrived in.
C13_LabelIsFeatureIndex ==
    (cmd = "genworld" /\ BuiltOk) =>
        LET f == disktree_file.bytes
            lut == BincodeDeserialize(f, ReadU64(f, Len(f) - 7).v + 1)
        IN  /\ Len(features) <= U8Max + 1
            /\ lut.ok /\ Len(lut.lut) = Len(features)
            /\ \A i \in 0..(Len(features) - 1) :
                  /\ lut.lut[i + 1] = PropsOf(i)
                  /\ \A c \in NormalizedOf(i) :
                        \E k \in 1..Len(inserted) :
                           inserted[k] = [src |-> i, label |-> i, cell |-> c]
            /\ \A k \in 1..Len(inserted) :
                  /\ inserted[k].label = inserted[k].src
                  /\ inserted[k].cell \in NormalizedOf(inserted[k].src)

C13_Witness ==
    /\ cmd = "genworld" /\ BuiltOk /\ Len(features) = 2
    /\ property_lut[1][1] = 1
    /\ Len(inserted) >= 2 /\ inserted[1].label = 1

\* C14: gen-world writes the mapping and reports success only after the
\* producer thread has returned and its result was found to be Ok; when the
\* producer fails or panics the finished build has failed, with nothing
\* written, also when the consumer has inserted results before.
C14_NoSuccessBeforeJoin ==
    cmd = "genworld" =>
        /\ (pc = "write" \/ result.tag = "Ok" \/ disktree_file.bytes # <<>>)
              => (tdone /\ werr.tag = "Ok" /\ todo = {} /\ rx = <<>>)
        /\ (pc \in {"join", "write"} \/ result.tag # "Running") => tdone
        /\ (pc = "done" /\ werr.tag # "Ok")
              => (result = werr /\ disktree_file.bytes = <<>>)

C14_Witness ==
    /\ cmd = "genworld" /\ pc = "done"
    /\ werr.tag = "Panic" /\ result.tag = "Panic"
    /\ inserted # <<>>

\* C15: when a build of more than U8Max + 1 sources has failed for capacity, no
\* call of insert was made and the output file was not created.
C15_CapacityFailsFirst ==
    (pc = "done" /\ NumSources > U8Max + 1
       /\ result = Err("out of range integral type conversion", NoIdx))
        => inserted = <<>> /\ ~disktree_file.exists

\* C16: in gen-world every step that calls insert is a step of the consumer,
\* which takes one message off the channel and inserts its cells, one message
\* after the other; a step of a worker sends or fails and leaves the mapping
\* alone.
C16_OnlyConsumerInserts ==
    [][cmd = "genworld" =>
          /\ (world_map' # world_map \/ inserted' # inserted)
                => \/ /\ pc = "recv" /\ rx # <<>>
                      /\ rx' = Tail(rx)
                      /\ todo' = todo /\ werr' = werr
                      /\ inserted' = inserted
                            \o Calls(Head(rx).lut_idx, Head(rx).lut_idx, Head(rx).cells)
                      /\ world_map' = InsertAll(world_map, Head(rx).cells, Head(rx).lut_idx)
                   \/ /\ pc = "start"
                      /\ world_map' = EmptyMap /\ inserted' = <<>>
          /\ (todo' # todo \/ werr' # werr \/ Len(rx') > Len(rx))
                => (world_map' = world_map \/ pc = "start")
      ]_vars

C16_Witness ==
    /\ cmd = "genworld" /\ pc = "recv" /\ pool = 2
    /\ inserted # <<>> /\ todo # {} /\ ~tdone

\* C17: in both modes no cell is inserted twice for one source, and no cell
\* inserted for a source is an ancestor or a descendant of another cell inserted
\* for the same source.
C17_InsertsNormalized ==
    \A k, l \in 1..Len(inserted) :
        (k # l /\ inserted[k].src = inserted[l].src)
            => ~IsPrefix(inserted[k].cell, inserted[l].cell)

\* The result of the feature at index i is in the channel.
InChannel(i) == \E k \in 1..Len(rx) : rx[k].lut_idx = i

\* The result of the feature at index i was received and its cells inserted.
Received(i) == \E k \in 1..Len(property_lut) : property_lut[k][1] = i

\* C18: every gen-world build that starts comes to the point where the producer
\* has returned and the channel is closed, the recv loop has ended, join has
\* returned and the build has its final outcome; the consumer leaves the loop
\* with the channel empty, and a result that is sent is received and inserted.
C18_PipelineTerminates ==
    /\ (cmd = "genworld" /\ pc = "start") ~> tdone
    /\ (cmd = "genworld" /\ pc = "recv") ~> (pc = "join" /\ rx = <<>>)
    /\ (cmd = "genworld" /\ pc = "join")
           ~> (pc = "done" /\ result.tag \in {"Ok", "Err", "Panic"})
    /\ \A i \in 0..1 : InChannel(i) ~> Received(i)
    /\ [](cmd = "genworld" /\ pc \notin {"start", "recv"} => rx = <<>>)

C18_Witness ==
    /\ cmd = "genworld" /\ pc = "done" /\ pool = 2
    /\ werr.tag = "Err" /\ result.tag = "Err"
    /\ Received(1) /\ tdone /\ rx = <<>>

\* The cells of resolution res that the cells of S cover.
Expand(S, res) == {c \in CellsAt(res) : \E a \in S : IsPrefix(a, c)}

\* The cells of S are all of one resolution.
OneResolution(S) == \A a, b \in S : Len(a) = Len(b)

\* C19 (as stated): the normalized set of a raw multiset of cells of one
\* resolution, expanded back to that resolution, is the set of the raw cells,
\* and normalizing the normalized set gives the normalized set again.
C19_NormalizeRoundTrip ==
    /\ norm.stage >= 1
          => /\ norm.once.ok
             /\ Expand(Range(norm.once.cells), norm.res) = Range(norm.raw)
    /\ norm.stage = 2 => norm.twice = norm.once

\* C19 (amended): the expansion of the normalized set is the set of the raw
\* cells and no normalized cell is an ancestor of another; normalizing the
\* normalized set gives it again when its cells are of one resolution, and is
\* an error of compact_cells when they are not.
C19_RoundTripOneResolution ==
    /\ norm.stage >= 1
          => /\ norm.once.ok
             /\ Expand(Range(norm.once.cells), norm.res) = Range(norm.raw)
             /\ \A i, j \in 1..Len(norm.once.cells) :
                   i # j => ~IsPrefix(norm.once.cells[i], norm.once.cells[j])
    /\ norm.stage = 2
          => IF OneResolution(Range(norm.once.cells))
             THEN norm.twice = norm.once
             ELSE ~norm.twice.ok

C19_Witness ==
    /\ norm.stage = 2 /\ norm.res = 2
    /\ Len(norm.raw) = MaxRaw
    /\ norm.once.cells = <<<<>>>>
    /\ norm.twice = norm.once

====
